---- MODULE Spec2Model ----
(***************************************************************************)
(* Model of the personalized retrieval and context fusion engine of        *)
(* woocommerce-ai-recommendations: IntelligentAstraClient                  *)
(* (src/astra_client.py) and IntelligentRecommendationService              *)
(* (src/langflow_integration.py).                                          *)
(*                                                                         *)
(* Scores are integers in hundredths (0.80 is 80).  Texts (queries and     *)
(* response texts) are records of one shape so that any two of them can be *)
(* compared.  The session store, the interaction log, the vector store,    *)
(* the embedder and the Langflow server are external collaborators: their  *)
(* answers and their failures are inputs of the actions.                   *)
(*                                                                         *)
(* The calls of astra_client.py are synchronous, so a coroutine of the     *)
(* service yields to the event loop only where it awaits the Langflow      *)
(* request: get_recommendations is two steps (GR_Start, GR_Resume) and     *)
(* get_product_recommendations one (View).  initialize() and               *)
(* get_recommendations_for_product() only read, and the filters are handed *)
(* to the vector store unchanged: they are part of what it answers.        *)
(*                                                                         *)
(* Three specifications share the definitions of the methods:              *)
(*   Spec       the service under concurrent requests and product views;   *)
(*   FaultSpec  one request, any of its collaborator calls failing;        *)
(*   CallSpec   the ranker, the search, the fallback response and the save *)
(*              called directly on objects the caller keeps.               *)
(* Prices are the numbers float() reads from the price strings;            *)
(* Unparseable stands for a price the parse rejects (ValueError) or that   *)
(* is no string (AttributeError).                                          *)
(***************************************************************************)
EXTENDS Integers, Sequences, FiniteSets, TLC

(* ---------------------------- bounds ----------------------------------- *)
MaxRequests == 2        \* get_recommendations requests per behaviour
MaxViews == 1           \* get_product_recommendations calls per behaviour
MaxSeed == 1            \* string-hash seeds 0..MaxSeed of the process
MaxSteps == 4           \* handler steps per behaviour
MaxFaults == 1          \* failing collaborator calls per behaviour
MaxCalls == 2           \* direct calls per behaviour

(* ----------------------- program constants ----------------------------- *)
HistoryCap == 20
CategoryCap == 10
ViewedCap == 50
RecentWindow == 5
CategoryBoost == 10
BudgetBoost == 5
BudgetPenalty == 10
ViewedPenalty == 2

(* ------------------------------ texts ---------------------------------- *)
Text(kind, k, q, n, top) == [kind |-> kind, k |-> k, q |-> q, n |-> n, top |-> top]
NoText == Text("none", 0, "", 0, 0)
QueryText(q) == Text("query", 0, q, 0, 0)
Queries == {"q1"}

(* ------------------- catalog held by the vector store ------------------ *)
Raw(id, ok, cats, price, sim, stock) ==
    [product_id |-> id, has_fields |-> ok, categories |-> cats, price |-> price,
     sim |-> sim, stock_status |-> stock, rating |-> 4]
Unparseable == -1
P42 == Raw(42, TRUE, {1}, 3000, 80, "instock")
P7 == Raw(7, TRUE, {2}, 6000, 85, "instock")
P5 == Raw(5, TRUE, {2, 3}, 5000, 78, "outofstock")
P9 == Raw(9, TRUE, 3..13, Unparseable, 70, "instock")
PBad == Raw(8, FALSE, {4}, 100, 82, "instock")
P3 == Raw(3, TRUE, {1, 2}, 500, 79, "instock")
P6 == Raw(6, TRUE, {1}, 500, 83, "instock")
\* the searches requested: a limit and what the vector store answers
Search(limit, raws) == [limit |-> limit, raws |-> raws]
Searches ==
    { Search(1, <<P7, P42>>), Search(1, <<P9>>), Search(2, <<P7, PBad, P5, P9>>) }
ViewProductIds == {42, 51}

(* ------------------------- session identifiers ------------------------- *)
NoSession == 0
NamedSessions == {1}
RequestIds == 1..MaxRequests
GeneratedId(r) == 100 + r

(* --------------------------- sequence helpers -------------------------- *)
Min(a, b) == IF a <= b THEN a ELSE b
Max(a, b) == IF a >= b THEN a ELSE b
Range(seq) == { seq[i] : i \in 1..Len(seq) }
\* Python seq[-n:] for n > 0: the last n entries, the whole list when shorter
KeepTail(seq, n) == IF Len(seq) <= n THEN seq ELSE SubSeq(seq, Len(seq) - n + 1, Len(seq))
\* Python seq[:n]: the first n entries for n >= 0, all but the last -n for n < 0
SliceTo(seq, n) == IF n >= 0 THEN SubSeq(seq, 1, Min(n, Len(seq)))
                   ELSE SubSeq(seq, 1, Max(Len(seq) + n, 0))

\* list(set(...)): the iteration order of a set of strings follows their
\* hashes, which depend on the hash seed the process started with
HashKey(c, seed) == (c * (seed + 1)) % 17
RECURSIVE ListOfSet(_, _)
ListOfSet(S, seed) ==
    IF S = {} THEN <<>>
    ELSE LET c == CHOOSE x \in S : \A y \in S : HashKey(x, seed) <= HashKey(y, seed)
         IN <<c>> \o ListOfSet(S \ {c}, seed)

(* ------------------------- UserContext / documents --------------------- *)
NoBudget == <<>>
NoPreferences == <<>>
UserContext(sid, hist, lastq, viewed, cats, budget, created, updated) ==
    [session_id |-> sid, preferences |-> NoPreferences, conversation_history |-> hist,
     last_search_query |-> lastq, viewed_products |-> viewed,
     interested_categories |-> cats, budget_range |-> budget,
     created_at |-> created, updated_at |-> updated]
\* mutant: a new context that starts from a shared, already used list
NewContext_Shared(sid, t) == UserContext(sid, <<>>, NoText, <<sid>>, <<>>, NoBudget, t, t)
NewContext(sid, t) == UserContext(sid, <<>>, NoText, <<>>, <<>>, NoBudget, t, t)
Message(role, content, t) == [role |-> role, content |-> content, timestamp |-> t]

(* ----------------------------- semantic_search ------------------------- *)
SearchResult(raw) ==
    [product_id |-> raw.product_id, categories |-> raw.categories, price |-> raw.price,
     similarity_score |-> raw.sim, stock_status |-> raw.stock_status, rating |-> raw.rating]
\* the conversion loop: a record without a mandatory field raises KeyError,
\* which is caught per record
\* mutant: a record without a mandatory field aborts the conversion
ConvertResults_Abort(raws) ==
    IF \E i \in 1..Len(raws) : ~raws[i].has_fields THEN <<>>
    ELSE [i \in 1..Len(raws) |-> SearchResult(raws[i])]
RECURSIVE ConvertResults(_)
ConvertResults(raws) ==
    IF raws = <<>> THEN <<>>
    ELSE LET rest == ConvertResults(Tail(raws))
         IN IF Head(raws).has_fields THEN <<SearchResult(Head(raws))>> \o rest ELSE rest

\* mutant: the upper bound of the budget is exclusive
BudgetAdjust_Exclusive(price, budget) ==
    IF budget = NoBudget \/ price = Unparseable THEN 0
    ELSE IF budget[1] <= price /\ price < budget[2] THEN BudgetBoost
    ELSE IF price >= budget[2] THEN 0 - BudgetPenalty
    ELSE 0
BudgetAdjust(price, budget) ==
    IF budget = NoBudget \/ price = Unparseable THEN 0
    ELSE IF budget[1] <= price /\ price <= budget[2] THEN BudgetBoost
    ELSE IF price > budget[2] THEN 0 - BudgetPenalty
    ELSE 0
\* mutant: one boost for every interested category the result is in
PersonalizeOne_PerCategory(result, ctx) ==
    [result EXCEPT !.similarity_score =
        @ + CategoryBoost * Cardinality(result.categories \cap Range(ctx.interested_categories))
          + BudgetAdjust(result.price, ctx.budget_range)
          + (IF result.product_id \in Range(ctx.viewed_products) THEN 0 - ViewedPenalty ELSE 0)]
\* mutant: a viewed product is not penalized
PersonalizeOne_NoPenalty(result, ctx) ==
    [result EXCEPT !.similarity_score =
        @ + (IF result.categories \cap Range(ctx.interested_categories) # {}
             THEN CategoryBoost ELSE 0)
          + BudgetAdjust(result.price, ctx.budget_range)]
PersonalizeOne(result, ctx) ==
    LET boost == IF result.categories \cap Range(ctx.interested_categories) # {}
                 THEN CategoryBoost ELSE 0
        seen == IF result.product_id \in Range(ctx.viewed_products)
                THEN 0 - ViewedPenalty ELSE 0
    IN [result EXCEPT !.similarity_score =
            @ + boost + BudgetAdjust(result.price, ctx.budget_range) + seen]
PersonalizeResults(results, ctx) ==
    [i \in 1..Len(results) |-> PersonalizeOne(results[i], ctx)]

\* list.sort(key=similarity_score, reverse=True): stable, descending
\* mutant: a result is placed before the results of equal score
InsertDesc_BeforeTies(sorted, x) ==
    LET n == Cardinality({ i \in 1..Len(sorted) :
                             sorted[i].similarity_score > x.similarity_score })
    IN SubSeq(sorted, 1, n) \o <<x>> \o SubSeq(sorted, n + 1, Len(sorted))
InsertDesc(sorted, x) ==
    LET n == Cardinality({ i \in 1..Len(sorted) :
                             sorted[i].similarity_score >= x.similarity_score })
    IN SubSeq(sorted, 1, n) \o <<x>> \o SubSeq(sorted, n + 1, Len(sorted))
RECURSIVE SortDesc(_)
SortDesc(seq) ==
    IF seq = <<>> THEN <<>>
    ELSE InsertDesc(SortDesc(SubSeq(seq, 1, Len(seq) - 1)), seq[Len(seq)])

\* generate_query_embedding: the vector, or [] when embeddings.create raises
\* (or when the embedder answers with an empty vector)
EmbedderAnswers == {"vector", "empty", "raises"}
GenerateQueryEmbedding(answer) == IF answer = "vector" THEN <<1>> ELSE <<>>
\* the limit vector_find is called with; no call when the embedding is empty
VectorFindLimit(limit, embedOk) == IF embedOk THEN <<limit * 2>> ELSE <<>>
\* mutant: the empty embedding is not checked before the search
SemanticSearch_NoGuard(limit, ctx, embedOk, findOk, raws) ==
    IF ~findOk THEN <<>>
    ELSE SliceTo(SortDesc(PersonalizeResults(ConvertResults(raws), ctx)), limit)
\* mutant: the candidates are cut to the limit before they are personalized
SemanticSearch_CutFirst(limit, ctx, embedOk, findOk, raws) ==
    IF ~embedOk \/ ~findOk THEN <<>>
    ELSE SortDesc(PersonalizeResults(SliceTo(ConvertResults(raws), limit), ctx))
SemanticSearch(limit, ctx, embedOk, findOk, raws) ==
    IF ~embedOk THEN <<>>
    ELSE IF ~findOk THEN <<>>
    ELSE SliceTo(SortDesc(PersonalizeResults(ConvertResults(raws), ctx)), limit)

ToDict(result) ==
    [id |-> result.product_id, categories |-> result.categories, price |-> result.price,
     similarity |-> result.similarity_score, inStock |-> (result.stock_status = "instock"),
     rating |-> result.rating]
ProductsData(results) == [i \in 1..Len(results) |-> ToDict(results[i])]

(* ------------------------------ session store -------------------------- *)
\* mutant: an unknown session is given a new context
GetUserContext_Create(st, sid, findOk) ==
    IF findOk /\ sid \in DOMAIN st
    THEN [found |-> TRUE,
          ctx |-> [UserContext(st[sid].session_id, st[sid].conversation_history,
                               st[sid].last_search_query, st[sid].viewed_products,
                               st[sid].interested_categories, st[sid].budget_range,
                               st[sid].created_at, st[sid].updated_at)
                   EXCEPT !.preferences = st[sid].preferences]]
    ELSE [found |-> TRUE, ctx |-> NewContext(sid, 0)]
\* get_user_context: the stored document as a UserContext, or none when the
\* session is unknown or find_one raises
GetUserContext(st, sid, findOk) ==
    IF findOk /\ sid \in DOMAIN st
    THEN [found |-> TRUE,
          ctx |-> [UserContext(st[sid].session_id, st[sid].conversation_history,
                               st[sid].last_search_query, st[sid].viewed_products,
                               st[sid].interested_categories, st[sid].budget_range,
                               st[sid].created_at, st[sid].updated_at)
                   EXCEPT !.preferences = st[sid].preferences]]
    ELSE [found |-> FALSE, ctx |-> NewContext(sid, 0)]

RecentQueries(hist) ==
    LET recent == KeepTail(hist, RecentWindow)
    IN { i \in 1..Len(recent) : recent[i].role = "user" }
Document(ctx, t, vec) ==
    [session_id |-> ctx.session_id, preferences |-> ctx.preferences,
     conversation_history |-> ctx.conversation_history,
     last_search_query |-> ctx.last_search_query,
     viewed_products |-> ctx.viewed_products,
     interested_categories |-> ctx.interested_categories,
     budget_range |-> ctx.budget_range,
     created_at |-> ctx.created_at, updated_at |-> t, has_vector |-> vec]
\* mutant: the filter of the write is left out, every record is replaced
Upsert_All(st, sid, doc) == [s \in DOMAIN st \cup {sid} |-> doc]
Upsert(st, sid, doc) == [s \in DOMAIN st \cup {sid} |-> IF s = sid THEN doc ELSE st[s]]
\* the collection as the list of documents the store holds: find_one gives
\* the first document of the session, replace_one(upsert=True) replaces that
\* document or inserts one when there is none
Matching(c, sid) == { i \in 1..Len(c) : c[i].session_id = sid }
FirstMatch(c, sid) == CHOOSE i \in Matching(c, sid) : \A j \in Matching(c, sid) : i <= j
AsStore(c) == [s \in { c[i].session_id : i \in 1..Len(c) } |-> c[FirstMatch(c, s)]]
\* mutant: the document is inserted without looking for the session's record
ReplaceOne_Insert(c, sid, doc) == Append(c, doc)
ReplaceOne(c, sid, doc) ==
    IF Matching(c, sid) # {} THEN [c EXCEPT ![FirstMatch(c, sid)] = doc] ELSE Append(c, doc)
\* mutant: the exception of a failing replace_one reaches the caller
UpdateUserContext_Raises(st, ctx, t, embedOk, replaceOk) ==
    [store |-> IF replaceOk
               THEN Upsert(st, ctx.session_id,
                           Document(ctx, t, ctx.conversation_history # <<>> /\ embedOk))
               ELSE st,
     raised |-> ~replaceOk]
\* update_user_context: replace_one(upsert) of the whole document; every
\* exception is caught and logged, nothing is raised to the caller
UpdateUserContext(st, ctx, t, embedOk, replaceOk) ==
    LET vec == ctx.conversation_history # <<>>
               /\ RecentQueries(ctx.conversation_history) # {} /\ embedOk
    IN [store |-> IF replaceOk THEN Upsert(st, ctx.session_id, Document(ctx, t, vec)) ELSE st,
        raised |-> FALSE]

\* log_interaction: insert_one, every exception caught
LogEntry(sid, type, data, t) == [session_id |-> sid, interaction_type |-> type, data |-> data, timestamp |-> t]
LogInteraction(lg, entry, insertOk) == IF insertOk THEN Append(lg, entry) ELSE lg

(* --------------------------- response generator ------------------------ *)
Suggestion(kind, cats, n) == [kind |-> kind, cats |-> cats, n |-> n]
FlowResults == {"failed", "outputs"}
Templates == 1..3
\* _generate_fallback_response; k is the template random.choice picks
GenerateFallbackResponse(q, products, ctx, k, seed) ==
    IF products = <<>>
    THEN [response |-> Text("none_found", 0, q, 0, 0),
          suggestions |-> << Suggestion("general", <<>>, 0), Suggestion("browse", <<>>, 0),
                             Suggestion("needs", <<>>, 0) >>]
    ELSE LET top3 == SliceTo(products, 3)
             categories == ListOfSet(UNION { top3[i].categories : i \in 1..Len(top3) }, seed)
             in_stock == Cardinality({ i \in 1..Len(products) : products[i].stock_status = "instock" })
             s1 == IF categories # <<>> THEN << Suggestion("explore", SliceTo(categories, 2), 0) >>
                   ELSE <<>>
             s2 == IF ctx.budget_range # NoBudget THEN << Suggestion("in_budget", <<>>, 0) >>
                   ELSE << Suggestion("set_budget", <<>>, 0) >>
             s3 == IF in_stock < Len(products) THEN << Suggestion("stock", <<>>, in_stock) >>
                   ELSE <<>>
         IN [response |-> Text("template", k, q, Len(products), products[1].product_id),
             suggestions |-> SliceTo(s1 \o s2 \o s3, 3)]
\* mutant: no fallback is generated when the flow gave nothing
GetRecommendationResponse_NoFallback(flow, q, products, ctx, k, seed) ==
    IF flow = "outputs"
    THEN [response |-> Text("flow", 0, q, 0, 0), suggestions |-> << Suggestion("flow", <<>>, 0) >>]
    ELSE [response |-> NoText, suggestions |-> <<>>]
\* get_recommendation_response: the flow's outputs, or the fallback when
\* run_flow returned {} or a result without outputs
GetRecommendationResponse(flow, q, products, ctx, k, seed) ==
    IF flow = "outputs"
    THEN [response |-> Text("flow", 0, q, 0, 0), suggestions |-> << Suggestion("flow", <<>>, 0) >>]
    ELSE IF flow = "outputs_bare"
    THEN [response |-> Text("default", 0, "", 0, 0), suggestions |-> <<>>]
    ELSE GenerateFallbackResponse(q, products, ctx, k, seed)

(* ------------------------------ context fusion ------------------------- *)
\* mutant: the categories are appended without the membership test
AppendNew_All(cats, new) == cats \o new
RECURSIVE AppendNew(_, _)
AppendNew(cats, new) ==
    IF new = <<>> THEN cats
    ELSE AppendNew(IF Head(new) \in Range(cats) THEN cats ELSE Append(cats, Head(new)), Tail(new))
ResultCategories(results, seed) ==
    ListOfSet(UNION { results[i].categories : i \in 1..Len(results) }, seed)
\* mutants: a trim that is left out
TrimHistory_Off(hist) == hist
TrimCategories_Off(cats) == cats
TrimViewed_Off(viewed) == viewed
\* mutant: the oldest viewed products are kept, not the newest
TrimViewed_Head(viewed) == SliceTo(viewed, ViewedCap)
TrimHistory(hist) == KeepTail(hist, HistoryCap)
TrimCategories(cats) == KeepTail(cats, CategoryCap)
TrimViewed(viewed) == KeepTail(viewed, ViewedCap)
\* mutant: the user message is saved without the assistant message
Fuse_UserOnly(ctx, q, response, results, t, seed) ==
    [ctx EXCEPT !.conversation_history = Append(@, Message("user", QueryText(q), t)),
                !.last_search_query = QueryText(q)]
\* mutant: the assistant message is appended before the user message
Fuse_AssistantFirst(ctx, q, response, results, t, seed) ==
    [ctx EXCEPT !.conversation_history =
                    TrimHistory(@ \o << Message("assistant", response, t),
                                        Message("user", QueryText(q), t) >>),
                !.last_search_query = QueryText(q),
                !.interested_categories =
                    TrimCategories(AppendNew(@, ResultCategories(results, seed)))]
\* mutant: the products returned are recorded as viewed
Fuse_AddsViewed(ctx, q, response, results, t, seed) ==
    [ctx EXCEPT !.conversation_history =
                    TrimHistory(@ \o << Message("user", QueryText(q), t),
                                        Message("assistant", response, t) >>),
                !.last_search_query = QueryText(q),
                !.interested_categories =
                    TrimCategories(AppendNew(@, ResultCategories(results, seed))),
                !.viewed_products =
                    TrimViewed(@ \o [i \in 1..Len(results) |-> results[i].product_id])]
\* the context update of get_recommendations
Fuse(ctx, q, response, results, t, seed) ==
    LET hist == ctx.conversation_history
                  \o << Message("user", QueryText(q), t), Message("assistant", response, t) >>
        cats == AppendNew(ctx.interested_categories, ResultCategories(results, seed))
    IN [ctx EXCEPT !.conversation_history = TrimHistory(hist),
                   !.last_search_query = QueryText(q),
                   !.interested_categories = TrimCategories(cats)]
\* the viewed-product update of get_product_recommendations
RecordView(ctx, pid) ==
    [ctx EXCEPT !.viewed_products = TrimViewed(Append(@, pid))]

RecommendationResponse(results, reply, sid) ==
    [products |-> ProductsData(results), conversation_response |-> reply.response,
     suggestions |-> reply.suggestions, session_id |-> sid, context_updated |-> TRUE]
NoResponse ==
    [products |-> <<>>, conversation_response |-> NoText, suggestions |-> <<>>,
     session_id |-> NoSession, context_updated |-> FALSE]

(* --------------------------------- state ------------------------------- *)
VARIABLES
    store,      \* user_contexts collection: session id -> document
    log,        \* user_interactions collection, in insertion order
    reqs,       \* the get_recommendations coroutines, by arrival number
    views,      \* the completed get_product_recommendations calls
    now,        \* datetime.utcnow(), as a tick counter
    hashSeed,   \* the string-hash seed of the process
    faults,     \* collaborator calls that have failed so far
    budget,     \* collaborator calls that may fail in the behaviour
    held_results,   \* the SearchResult objects a caller holds for the ranker
    held_context,   \* the UserContext object that caller holds
    coll,       \* user_contexts as the list of documents the store holds
    calls       \* the direct calls made so far, each with what it returned
service == <<store, log, reqs, views, faults, budget>>
direct == <<held_results, held_context, coll, calls>>
vars == <<store, log, reqs, views, now, hashSeed, faults, budget, held_results,
         held_context, coll, calls>>

\* the user_contexts collection outlives the process: it starts empty, or
\* with a session left by earlier runs (nine searches, nine categories of
\* interest, 50 viewed products)
SeedTime == (HistoryCap \div 2) - 1
SeedHistory ==
    [i \in 1..(2 * SeedTime) |->
        IF i % 2 = 1 THEN Message("user", QueryText("q0"), (i + 1) \div 2)
        ELSE Message("assistant", Text("default", 0, "", 0, 0), i \div 2)]
SeedCategories == <<21, 22, 23, 24, 25, 26, 27, 28, 1>>
SeedViewed == [i \in 1..ViewedCap |-> i]
SeedDocument ==
    Document(UserContext(1, SeedHistory, QueryText("q0"), SeedViewed, SeedCategories,
                         NoBudget, 0, SeedTime), SeedTime, TRUE)
EmptyStore == <<>>
StartTime == SeedTime + 1
Running == now < StartTime + MaxSteps
Failed(ok) == IF ok THEN 0 ELSE 1
SeedStore == Upsert(EmptyStore, 1, SeedDocument)

IdleRequest ==
    [pc |-> "idle", session_id |-> NoSession, query |-> "",
     user_context |-> NewContext(NoSession, 0), search_results |-> <<>>,
     langflow_response |-> [response |-> NoText, suggestions |-> <<>>],
     ret |-> NoResponse, loaded |-> "none", n0 |-> 0, saved |-> FALSE,
     started |-> 0, finished |-> 0, retrieved |-> <<>>]

\* no direct call is made: the service's handlers are the only callers
NoDirectCalls ==
    /\ held_results = <<>>
    /\ held_context = NewContext(NoSession, 0)
    /\ coll = <<>>
    /\ calls = <<>>

Init ==
    /\ store \in {EmptyStore, SeedStore}
    /\ log = <<>>
    /\ reqs = [r \in RequestIds |-> IdleRequest]
    /\ views = {}
    /\ now = StartTime
    /\ hashSeed \in 0..MaxSeed
    /\ faults = 0
    /\ budget = MaxFaults
    /\ NoDirectCalls

PersistedHistory(st, sid) == IF sid \in DOMAIN st THEN st[sid].conversation_history ELSE <<>>

\* get_recommendations up to the await of the Langflow call: session id,
\* context load, semantic search
GR_Start(r, sid, q, limit, loadOk, embedOk, findOk, raws) ==
    /\ Running
    /\ reqs[r].pc = "idle"
    /\ \A r2 \in RequestIds : r2 < r => reqs[r2].pc # "idle"
    /\ Len(raws) <= 2 * limit
    \* the vector store is not asked when the embedding failed, and answers
    \* nothing when it raises
    /\ ~embedOk => findOk
    /\ ~(embedOk /\ findOk) => raws = <<>>
    \* a failing load of an unknown session gives what a successful one gives
    /\ ~loadOk => sid \in DOMAIN store
    /\ faults' = faults + Failed(loadOk) + Failed(embedOk) + Failed(findOk)
    /\ faults' <= budget
    /\ \E session \in {IF sid = NoSession THEN GeneratedId(r) ELSE sid} :
       \E got \in {GetUserContext(store, session, loadOk)} :
       \E ctx \in {IF got.found THEN got.ctx ELSE NewContext(session, now)} :
       \E search_results \in {SemanticSearch(limit, ctx, embedOk, findOk, raws)} :
          reqs' = [reqs EXCEPT ![r] =
                     [@ EXCEPT !.pc = "awaiting", !.session_id = session, !.query = q,
                               !.user_context = ctx,
                               !.search_results = search_results,
                               !.retrieved = ConvertResults(raws),
                               !.loaded = IF got.found THEN "found"
                                          ELSE IF session \in DOMAIN store THEN "failed"
                                          ELSE "absent",
                               !.n0 = Len(PersistedHistory(store, session)),
                               !.started = now]]
    /\ now' = now + 1
    /\ UNCHANGED <<store, log, views, hashSeed, budget, direct>>

\* get_recommendations from the Langflow answer to the return: response,
\* fusion, save, interaction log, RecommendationResponse
GR_Resume(r, flow, k, embedOk, replaceOk, insertOk) ==
    /\ Running
    /\ reqs[r].pc = "awaiting"
    \* random.choice matters to the fallback only
    /\ (flow = "outputs" \/ reqs[r].search_results = <<>>) => k = 1
    \* the embedding is of no effect when the write fails
    /\ ~replaceOk => embedOk
    /\ faults' = faults + Failed(embedOk) + Failed(replaceOk) + Failed(insertOk)
    /\ faults' <= budget
    /\ \E me \in {reqs[r]} :
       \E reply \in {GetRecommendationResponse(flow, me.query, me.search_results,
                                               me.user_context, k, hashSeed)} :
       \E ctx \in {Fuse(me.user_context, me.query, reply.response, me.search_results,
                        now, hashSeed)} :
       \E upd \in {UpdateUserContext(store, ctx, now, embedOk, replaceOk)} :
       LET top == IF me.search_results # <<>> THEN me.search_results[1].similarity_score ELSE 0
           entry == LogEntry(me.session_id, "search",
                             [query |-> me.query, results_count |-> Len(me.search_results),
                              top_similarity |-> top, product_id |-> 0], now)
       IN /\ store' = upd.store
          /\ IF upd.raised
             THEN /\ reqs' = [reqs EXCEPT ![r] =
                                [@ EXCEPT !.pc = "raised", !.user_context = ctx,
                                          !.langflow_response = reply, !.finished = now]]
                  /\ log' = log
             ELSE /\ reqs' = [reqs EXCEPT ![r] =
                                [@ EXCEPT !.pc = "done", !.user_context = ctx,
                                          !.langflow_response = reply,
                                          !.saved = replaceOk, !.finished = now,
                                          !.ret = RecommendationResponse(me.search_results, reply,
                                                                         me.session_id)]]
                  /\ log' = LogInteraction(log, entry, insertOk)
    /\ now' = now + 1
    /\ UNCHANGED <<views, hashSeed, budget, direct>>

\* the request is abandoned while it awaits Langflow: the coroutine is
\* cancelled at the await and nothing after it runs
GR_Cancel(r) ==
    /\ Running
    /\ reqs[r].pc = "awaiting"
    /\ reqs' = [reqs EXCEPT ![r] = [@ EXCEPT !.pc = "cancelled"]]
    /\ now' = now + 1
    /\ UNCHANGED <<store, log, views, hashSeed, faults, budget, direct>>

\* get_product_recommendations: no await suspends it, it runs as one step
View(sid, pid, insertOk, loadOk, embedOk, replaceOk) ==
    /\ Running
    /\ Cardinality(views) < MaxViews
    \* flags of calls that are not made, or are of no effect, are left true
    /\ sid = NoSession => insertOk /\ loadOk /\ \A p \in ViewProductIds : pid <= p
    /\ ~loadOk => sid \in DOMAIN store
    /\ ~(loadOk /\ sid \in DOMAIN store /\ pid \notin Range(store[sid].viewed_products))
          => embedOk /\ replaceOk
    /\ ~replaceOk => embedOk
    /\ faults' = faults + Failed(insertOk) + Failed(loadOk) + Failed(embedOk) + Failed(replaceOk)
    /\ faults' <= budget
    /\ \E got \in {GetUserContext(store, sid, loadOk)} :
       \E fresh \in {got.found /\ pid \notin Range(got.ctx.viewed_products)} :
       \E upd \in {UpdateUserContext(store, RecordView(got.ctx, pid), now, embedOk, replaceOk)} :
       LET entry == LogEntry(sid, "product_view",
                             [query |-> "", results_count |-> 0, top_similarity |-> 0,
                              product_id |-> pid], now)
       IN IF sid = NoSession
          THEN /\ UNCHANGED <<store, log>>
               /\ views' = views \cup {[session_id |-> sid, product_id |-> pid, at |-> now,
                                        recorded |-> FALSE, inflight |-> {},
                                        loaded |-> "none", logged |-> FALSE]}
          ELSE /\ log' = LogInteraction(log, entry, insertOk)
               /\ store' = IF fresh THEN upd.store ELSE store
               /\ views' = views \cup
                     {[session_id |-> sid, product_id |-> pid, at |-> now,
                       recorded |-> fresh /\ replaceOk,
                       loaded |-> IF got.found THEN "found"
                                  ELSE IF sid \in DOMAIN store THEN "failed"
                                  ELSE "absent",
                       logged |-> insertOk,
                       inflight |-> { r \in RequestIds : reqs[r].pc = "awaiting"
                                                         /\ reqs[r].session_id = sid }]}
    /\ now' = now + 1
    /\ UNCHANGED <<reqs, hashSeed, budget, direct>>

Next ==
    \/ \E r \in RequestIds, sid \in NamedSessions \cup {NoSession}, q \in Queries,
          s \in Searches, loadOk \in BOOLEAN, embedOk \in BOOLEAN, findOk \in BOOLEAN :
            GR_Start(r, sid, q, s.limit, loadOk, embedOk, findOk,
                     IF embedOk /\ findOk THEN s.raws ELSE <<>>)
    \/ \E r \in RequestIds, flow \in FlowResults, k \in Templates, embedOk \in BOOLEAN,
          replaceOk \in BOOLEAN, insertOk \in BOOLEAN :
            GR_Resume(r, flow, k, embedOk, replaceOk, insertOk)
    \/ \E r \in RequestIds : GR_Cancel(r)
    \/ \E sid \in NamedSessions \cup {NoSession}, pid \in ViewProductIds, insertOk \in BOOLEAN,
          loadOk \in BOOLEAN, embedOk \in BOOLEAN, replaceOk \in BOOLEAN :
            View(sid, pid, insertOk, loadOk, embedOk, replaceOk)

Spec == Init /\ [][Next]_vars

(* ----------------- direct calls of the client's methods ---------------- *)
\* The methods of IntelligentAstraClient and LangflowClient called directly,
\* on objects the caller keeps: the service is idle.  Category 1 is
\* "Mobility", category 2 "Electronics".
ShortHistory ==
    << Message("user", QueryText("q0"), 0), Message("assistant", Text("default", 0, "", 0, 0), 0) >>
ScenarioContext == UserContext(1, ShortHistory, QueryText("q0"), <<42>>, <<1>>, <<1000, 5000>>, 0, 0)
Contexts ==
    { ScenarioContext,
      NewContext(2, 0),
      UserContext(2, <<>>, NoText, <<9>>, <<2, 3>>, NoBudget, 0, 0),
      UserContext(1, ShortHistory, QueryText("q0"), <<>>, <<>>, <<3000, 3000>>, 0, 0) }
HeldResults == { ConvertResults(<<P42, P7>>), ConvertResults(<<P5, P3, P9, P42>>) }
DirectSearches ==
    { Search(1, <<P7, P42>>), Search(2, <<P7, P42>>), Search(2, <<P7, PBad, P5, P3>>),
      Search(2, <<P6, P42>>),
      Search(0, <<>>), Search(0, <<P7, P42>>), Search(0 - 1, <<P7, P42>>) }
ServiceIdle ==
    /\ store = EmptyStore
    /\ log = <<>>
    /\ reqs = [r \in RequestIds |-> IdleRequest]
    /\ views = {}
    /\ faults = 0
    /\ budget = 0

CallInit ==
    /\ ServiceIdle
    /\ now = StartTime
    /\ hashSeed \in 0..MaxSeed
    /\ held_results \in HeldResults
    /\ held_context \in Contexts
    /\ coll \in {<<>>, <<SeedDocument>>}
    /\ calls = <<>>

\* _personalize_results(held_results, held_context): the scores are updated
\* in the objects of the list, and the list itself is returned
Personalize ==
    /\ Len(calls) < MaxCalls
    /\ \E out \in {PersonalizeResults(held_results, held_context)} :
          /\ held_results' = out
          /\ calls' = Append(calls, [op |-> "personalize", given |-> held_results,
                                     ctx |-> held_context, out |-> out])
    /\ UNCHANGED <<held_context, coll, now, hashSeed, service>>

\* semantic_search(query, limit, None, held_context); raws is what the
\* vector store answers when it is asked and does not raise
SemanticSearchCall(limit, answer, findOk, raws) ==
    /\ Len(calls) < MaxCalls
    /\ limit >= 1 => Len(raws) <= 2 * limit
    /\ answer # "vector" => findOk
    /\ \E embedOk \in {GenerateQueryEmbedding(answer) # <<>>} :
          calls' = Append(calls, [op |-> "search", limit |-> limit, embedder |-> answer,
                                  findOk |-> findOk, raws |-> raws, ctx |-> held_context,
                                  asked |-> VectorFindLimit(limit, embedOk),
                                  out |-> SemanticSearch(limit, held_context, embedOk, findOk, raws),
                                  raised |-> FALSE])
    /\ UNCHANGED <<held_results, held_context, coll, now, hashSeed, service>>

\* _generate_fallback_response(query, held_results, held_context); k is the
\* template random.choice picks
Fallback(q, k) ==
    /\ Len(calls) < MaxCalls
    /\ held_results = <<>> => k = 1
    /\ calls' = Append(calls, [op |-> "fallback", query |-> q, products |-> held_results,
                               ctx |-> held_context,
                               out |-> GenerateFallbackResponse(q, held_results, held_context,
                                                                k, hashSeed)])
    /\ UNCHANGED <<held_results, held_context, coll, now, hashSeed, service>>

\* update_user_context(held_context): updated_at is set on the object, then
\* the document is built and written
Save(answer, replaceOk) ==
    /\ Len(calls) < MaxCalls
    /\ ~replaceOk => answer = "vector"
    /\ \E embedOk \in {GenerateQueryEmbedding(answer) # <<>>} :
       \E upd \in {UpdateUserContext(AsStore(coll), held_context, now, embedOk, replaceOk)} :
       \E after \in {IF replaceOk
                      THEN ReplaceOne(coll, held_context.session_id,
                                      upd.store[held_context.session_id])
                      ELSE coll} :
          /\ coll' = after
          /\ calls' = Append(calls, [op |-> "save", ctx |-> held_context, embedOk |-> embedOk,
                                     replaceOk |-> replaceOk, at |-> now, given |-> coll,
                                     out |-> after, staged |-> upd.store, raised |-> upd.raised])
    /\ held_context' = [held_context EXCEPT !.updated_at = now]
    /\ now' = now + 1
    /\ UNCHANGED <<held_results, hashSeed, service>>

CallNext ==
    \/ Personalize
    \/ \E s \in DirectSearches, answer \in EmbedderAnswers, findOk \in BOOLEAN :
          SemanticSearchCall(s.limit, answer, findOk, s.raws)
    \/ \E q \in Queries, k \in Templates : Fallback(q, k)
    \/ \E answer \in EmbedderAnswers, replaceOk \in BOOLEAN : Save(answer, replaceOk)

CallSpec == CallInit /\ [][CallNext]_vars

(* ---------------- one request, any collaborator failing ---------------- *)
\* the calls of a request that can fail: find_one, embeddings.create and
\* vector_find of the search, embeddings.create and replace_one of the save,
\* insert_one of the log (the Langflow call fails by its answer)
FallibleCalls ==
    {"find_one", "embeddings.create", "vector_find", "embeddings.create (save)",
     "replace_one", "insert_one"}
FirstRequest == CHOOSE r \in RequestIds : \A r2 \in RequestIds : r <= r2
FaultInit ==
    /\ store \in {EmptyStore, SeedStore}
    /\ log = <<>>
    /\ reqs = [r \in RequestIds |-> IdleRequest]
    /\ views = {}
    /\ now = StartTime
    /\ hashSeed \in 0..MaxSeed
    /\ faults = 0
    /\ budget = Cardinality(FallibleCalls)
    /\ NoDirectCalls
FaultNext ==
    \/ \E sid \in NamedSessions \cup {NoSession}, q \in Queries,
          s \in Searches, loadOk \in BOOLEAN, embedOk \in BOOLEAN, findOk \in BOOLEAN :
            GR_Start(FirstRequest, sid, q, s.limit, loadOk, embedOk, findOk,
                     IF embedOk /\ findOk THEN s.raws ELSE <<>>)
    \/ \E flow \in FlowResults, k \in Templates, embedOk \in BOOLEAN,
          replaceOk \in BOOLEAN, insertOk \in BOOLEAN :
            GR_Resume(FirstRequest, flow, k, embedOk, replaceOk, insertOk)
FaultSpec == FaultInit /\ [][FaultNext]_vars

(* ================================ claims =============================== *)
Persisted(s) == store[s]
Finished(r) == reqs[r].pc = "done"
Saved(r) == Finished(r) /\ reqs[r].saved
\* the step in which request r resumes, fuses and returns
Returns(r) == reqs[r].pc = "awaiting" /\ reqs'[r].pc = "done"
HasPair(hist, r) ==
    \E i \in 1..(Len(hist) - 1) :
        /\ hist[i] = Message("user", QueryText(reqs[r].query), reqs[r].finished)
        /\ hist[i + 1] = Message("assistant", reqs[r].ret.conversation_response, reqs[r].finished)
CategoriesOf(results) == UNION { results[i].categories : i \in 1..Len(results) }

\* C1: every persisted session record has a conversation_history of at most
\* 20 entries, after any sequence of get_recommendations calls.
C1_HistoryBounded ==
    \A s \in DOMAIN store : Len(Persisted(s).conversation_history) <= HistoryCap
\* a fusion has filled the history to the cap and evicted the oldest entries
C1_Witness ==
    \E r \in RequestIds :
        /\ Saved(r)
        /\ reqs[r].session_id \in DOMAIN store
        /\ Len(Persisted(reqs[r].session_id).conversation_history) = HistoryCap
        /\ Persisted(reqs[r].session_id).conversation_history[1] # SeedHistory[1]
        /\ HasPair(Persisted(reqs[r].session_id).conversation_history, r)

\* C2: every persisted session record has at most 10 interested_categories,
\* also when one request's results carry more than 10 unseen categories.
C2_CategoriesBounded ==
    \A s \in DOMAIN store : Len(Persisted(s).interested_categories) <= CategoryCap
\* a request on a new session whose results carry more than 10 categories
\* has been fused and saved
C2_Witness ==
    \E r \in RequestIds :
        /\ Saved(r)
        /\ reqs[r].loaded = "absent"
        /\ Cardinality(CategoriesOf(reqs[r].search_results)) > CategoryCap
        /\ reqs[r].session_id \in DOMAIN store
        /\ Len(Persisted(reqs[r].session_id).interested_categories) = CategoryCap

\* C3: every persisted session record has at most 50 viewed_products, after
\* any sequence of product views and get_recommendations calls.
C3_ViewedBounded ==
    \A s \in DOMAIN store : Len(Persisted(s).viewed_products) <= ViewedCap
\* a view of a new product was recorded on a session with 50 viewed
\* products: the oldest was evicted
C3_Witness ==
    \E v \in views :
        /\ v.recorded
        /\ v.session_id \in DOMAIN store
        /\ Len(Persisted(v.session_id).viewed_products) = ViewedCap
        /\ Persisted(v.session_id).viewed_products[ViewedCap] = v.product_id
        /\ SeedViewed[1] \notin Range(Persisted(v.session_id).viewed_products)

\* C4: two get_recommendations requests of one session that overlap (one
\* loads the context while the other awaits the response generator) both
\* keep their update: once both have returned and saved, the persisted
\* history holds the user/assistant pair of each.
Overlap(r1, r2) ==
    /\ reqs[r1].started < reqs[r2].finished
    /\ reqs[r2].started < reqs[r1].finished
C4_NoLostUpdate ==
    \A r1, r2 \in RequestIds :
        ( /\ r1 # r2
          /\ Saved(r1) /\ Saved(r2)
          /\ reqs[r1].session_id = reqs[r2].session_id
          /\ Overlap(r1, r2) )
        => /\ HasPair(Persisted(reqs[r1].session_id).conversation_history, r1)
           /\ HasPair(Persisted(reqs[r1].session_id).conversation_history, r2)

\* C5: a product view recorded for a session while a get_recommendations
\* request of that session is in flight is still in the persisted
\* viewed_products once that request has returned.
C5_ViewNotLost ==
    \A v \in views :
        v.recorded =>
            \A r \in v.inflight :
                Finished(r) =>
                    v.product_id \in Range(Persisted(v.session_id).viewed_products)

\* C6: fusion is all-or-nothing: in every persisted record each user message
\* is immediately followed by the assistant message of the same interaction,
\* and last_search_query is the query of the last persisted pair; also after
\* a request was abandoned at its suspension point.
PairsWhole(hist) ==
    /\ Len(hist) % 2 = 0
    /\ \A i \in 1..Len(hist) :
          IF i % 2 = 1
          THEN /\ hist[i].role = "user"
               /\ hist[i + 1].role = "assistant"
               /\ hist[i + 1].timestamp = hist[i].timestamp
          ELSE hist[i].role = "assistant"
C6_AllOrNothing ==
    \A s \in DOMAIN store :
        LET hist == Persisted(s).conversation_history
        IN /\ PairsWhole(hist)
           /\ hist # <<>> => Persisted(s).last_search_query = hist[Len(hist) - 1].content
           /\ hist = <<>> => Persisted(s).last_search_query = NoText
\* a request was abandoned while another one of the same session was fused
C6_Witness ==
    \E r1, r2 \in RequestIds :
        /\ reqs[r1].pc = "cancelled"
        /\ Saved(r2)
        /\ reqs[r1].session_id = reqs[r2].session_id
        /\ reqs[r1].loaded = "absent"
        /\ HasPair(Persisted(reqs[r2].session_id).conversation_history, r2)

\* C7: a get_recommendations call on a session whose persisted history has
\* length n leaves, when its save succeeds, a persisted history of length
\* exactly min(n + 2, 20).
C7_GrowsByTwo ==
    [][ \A r \in RequestIds :
          (Returns(r) /\ reqs'[r].saved)
          => Len(PersistedHistory(store', reqs[r].session_id))
               = Min(reqs[r].n0 + 2, HistoryCap) ]_vars

\* C8: when the save of the session context fails, get_recommendations still
\* returns the ranked products, the response text and the suggestions it had
\* computed, and raises nothing.
Returned(r) == reqs[r].pc \in {"done", "raised"}
C8_SaveFailureHidden ==
    \A r \in RequestIds :
        (Returned(r) /\ ~reqs[r].saved)
        => /\ reqs[r].pc = "done"
           /\ reqs[r].ret.products = ProductsData(reqs[r].search_results)
           /\ reqs[r].ret.conversation_response = reqs[r].langflow_response.response
           /\ reqs[r].ret.suggestions = reqs[r].langflow_response.suggestions
\* a request with products returned although its save failed
C8_Witness ==
    \E r \in RequestIds :
        /\ Finished(r) /\ ~reqs[r].saved
        /\ reqs[r].ret.products # <<>>
        /\ reqs[r].session_id \in DOMAIN store
        /\ ~HasPair(Persisted(reqs[r].session_id).conversation_history, r)

\* C9: context_updated in the response is true exactly when the save of the
\* request's fused context succeeded.
C9_FlagTracksSave ==
    \A r \in RequestIds : Finished(r) => (reqs[r].ret.context_updated <=> reqs[r].saved)

\* C10 as stated: the first get_recommendations of an unknown session
\* persists a record that is empty but for the two fresh messages:
\* viewed_products and interested_categories empty, budget_range null.
FreshPair(r) ==
    << Message("user", QueryText(reqs[r].query), now),
       Message("assistant", reqs'[r].ret.conversation_response, now) >>
FirstSave(r) == Returns(r) /\ reqs'[r].saved /\ reqs[r].loaded = "absent"
C10_AllEmpty ==
    [][ \A r \in RequestIds :
          FirstSave(r)
          => LET doc == store'[reqs[r].session_id]
             IN /\ doc.conversation_history = FreshPair(r)
                /\ doc.viewed_products = <<>>
                /\ doc.interested_categories = <<>>
                /\ doc.budget_range = NoBudget ]_vars
\* C10 amended: loading an unknown session gives no context, and the first
\* get_recommendations then persists a record with exactly the two fresh
\* messages, no viewed product, no budget and no preference, whose
\* interested_categories are the categories of the returned results (ten of
\* them when there are more).
C10_FreshRecord ==
    [][ \A r \in RequestIds :
          /\ (reqs[r].pc = "idle" /\ reqs'[r].pc = "awaiting"
                /\ reqs'[r].session_id \notin DOMAIN store)
             => /\ reqs'[r].loaded = "absent"
                /\ reqs'[r].user_context.conversation_history = <<>>
          /\ FirstSave(r)
             => LET doc == store'[reqs[r].session_id]
                    cats == CategoriesOf(reqs[r].search_results)
                IN /\ doc.conversation_history = FreshPair(r)
                   /\ doc.viewed_products = <<>>
                   /\ doc.budget_range = NoBudget
                   /\ doc.preferences = NoPreferences
                   /\ Range(doc.interested_categories) \subseteq cats
                   /\ Len(doc.interested_categories) = Min(Cardinality(cats), CategoryCap)
                   /\ Cardinality(Range(doc.interested_categories))
                        = Len(doc.interested_categories) ]_vars
\* the first request of an unknown session was saved with the categories of
\* its results
C10_Witness ==
    \E r \in RequestIds :
        /\ Saved(r) /\ reqs[r].loaded = "absent"
        /\ reqs[r].session_id \in DOMAIN store
        /\ Persisted(reqs[r].session_id).conversation_history
             = << Message("user", QueryText(reqs[r].query), reqs[r].finished),
                  Message("assistant", reqs[r].ret.conversation_response, reqs[r].finished) >>
        /\ Persisted(reqs[r].session_id).interested_categories # <<>>
        /\ Persisted(reqs[r].session_id).viewed_products = <<>>

(* -------------------- claims about the direct calls -------------------- *)
Called(i, op) == calls[i].op = op
CallIds == 1..Len(calls)
Scores(rs) == [i \in 1..Len(rs) |-> rs[i].similarity_score]
Ids(rs) == [i \in 1..Len(rs) |-> rs[i].product_id]

\* C11: the ranker is deterministic and leaves its inputs alone: two calls of
\* _personalize_results on the same results with the same context return the
\* same ordering and the same scores (the second call adds nothing again).
C11_RankingRepeatable ==
    \A i, j \in CallIds :
        ( /\ i < j
          /\ Called(i, "personalize") /\ Called(j, "personalize")
          /\ calls[i].ctx = calls[j].ctx )
        => /\ Ids(calls[j].out) = Ids(calls[i].out)
           /\ Scores(calls[j].out) = Scores(calls[i].out)

\* C12: for the context interested_categories = [Mobility], budget_range =
\* (1000, 5000), viewed_products = [42] and the candidates {42, Mobility, price
\* 3000, raw 0.80} and {7, Electronics, price 6000, raw 0.85}, the ranker
\* gives 0.93 to product 42 and 0.75 to product 7, and the search returns them
\* in the order [42, 7].
ScenarioSignals(ctx) ==
    /\ ctx.interested_categories = <<1>>
    /\ ctx.budget_range = <<1000, 5000>>
    /\ ctx.viewed_products = <<42>>
ScenarioSearch(i) ==
    /\ Called(i, "search")
    /\ ScenarioSignals(calls[i].ctx)
    /\ calls[i].raws = <<P7, P42>>
    /\ calls[i].embedder = "vector" /\ calls[i].findOk
ScenarioRanking(i) ==
    /\ Called(i, "personalize")
    /\ ScenarioSignals(calls[i].ctx)
    /\ calls[i].given = ConvertResults(<<P42, P7>>)
C12_ScenarioScores ==
    \A i \in CallIds :
        /\ ScenarioRanking(i)
             => /\ Ids(calls[i].out) = <<42, 7>>
                /\ Scores(calls[i].out) = <<93, 75>>
        /\ (ScenarioSearch(i) /\ calls[i].limit = 2)
             => /\ Ids(calls[i].out) = <<42, 7>>
                /\ Scores(calls[i].out) = <<93, 75>>
\* the scenario has been ranked and searched
C12_Witness ==
    \E i, j \in CallIds :
        /\ ScenarioRanking(i)
        /\ ScenarioSearch(j) /\ calls[j].limit = 2 /\ Len(calls[j].out) = 2

\* C13: the category boost is applied at most once per result: a result that
\* shares one or several categories with interested_categories gets exactly
\* +0.10, a result that shares none gets no category boost.
SharedCategories(result, ctx) == result.categories \cap Range(ctx.interested_categories)
\* no other adjustment applies to the result: no budget, not viewed before
CategoryOnly(result, ctx) ==
    /\ ctx.budget_range = NoBudget
    /\ result.product_id \notin Range(ctx.viewed_products)
C13_BoostOnce ==
    \A i \in CallIds :
        Called(i, "personalize") =>
            \A n \in 1..Len(calls[i].given) :
                CategoryOnly(calls[i].given[n], calls[i].ctx) =>
                    calls[i].out[n].similarity_score - calls[i].given[n].similarity_score
                      = IF SharedCategories(calls[i].given[n], calls[i].ctx) # {}
                        THEN CategoryBoost ELSE 0
\* one ranking has boosted a result that shares two categories by 0.10 and a
\* result that shares one by 0.10, and has left alone a result that shares none
C13_Witness ==
    \E i \in CallIds :
        /\ Called(i, "personalize")
        /\ \E n, m \in 1..Len(calls[i].given) :
              /\ CategoryOnly(calls[i].given[n], calls[i].ctx)
              /\ Cardinality(SharedCategories(calls[i].given[n], calls[i].ctx)) > 1
              /\ calls[i].out[n].similarity_score
                   = calls[i].given[n].similarity_score + CategoryBoost
              /\ CategoryOnly(calls[i].given[m], calls[i].ctx)
              /\ Cardinality(SharedCategories(calls[i].given[m], calls[i].ctx)) = 1
              /\ calls[i].out[m].similarity_score
                   = calls[i].given[m].similarity_score + CategoryBoost
        /\ \E n \in 1..Len(calls[i].given) :
              /\ CategoryOnly(calls[i].given[n], calls[i].ctx)
              /\ SharedCategories(calls[i].given[n], calls[i].ctx) = {}
              /\ calls[i].out[n].similarity_score = calls[i].given[n].similarity_score

\* C14: with a budget range (min, max) and a parseable price p, a result gets
\* +0.05 when min <= p <= max (p = max included), -0.10 when p > max and
\* nothing when p < min; an unparseable price changes nothing and raises no
\* error, and without a budget range there is no budget adjustment.
\* no other adjustment applies to the result: no shared category, not viewed
BudgetOnly(result, ctx) ==
    /\ SharedCategories(result, ctx) = {}
    /\ result.product_id \notin Range(ctx.viewed_products)
Gain(i, n) == calls[i].out[n].similarity_score - calls[i].given[n].similarity_score
C14_BudgetAdjustment ==
    \A i \in CallIds :
        Called(i, "personalize") =>
            /\ Len(calls[i].out) = Len(calls[i].given)
            /\ \A n \in 1..Len(calls[i].given) :
                 LET p == calls[i].given[n].price
                     b == calls[i].ctx.budget_range
                 IN BudgetOnly(calls[i].given[n], calls[i].ctx) =>
                      /\ b = NoBudget => Gain(i, n) = 0
                      /\ (b # NoBudget /\ p = Unparseable) => Gain(i, n) = 0
                      /\ (b # NoBudget /\ p # Unparseable) =>
                            /\ (b[1] <= p /\ p <= b[2]) => Gain(i, n) = BudgetBoost
                            /\ p > b[2] => Gain(i, n) = 0 - BudgetPenalty
                            /\ p < b[1] => Gain(i, n) = 0
\* one ranking has boosted a result priced at the upper bound, penalized a
\* result priced above it and left alone a result priced below the lower
\* bound and a result whose price is unparseable
C14_Witness ==
    \E i \in CallIds :
        /\ Called(i, "personalize")
        /\ calls[i].ctx.budget_range # NoBudget
        /\ \E n, m, lo, u \in 1..Len(calls[i].given) :
              /\ \A x \in {n, m, lo, u} : BudgetOnly(calls[i].given[x], calls[i].ctx)
              /\ calls[i].given[n].price = calls[i].ctx.budget_range[2]
              /\ Gain(i, n) = BudgetBoost
              /\ calls[i].given[m].price > calls[i].ctx.budget_range[2]
              /\ Gain(i, m) = 0 - BudgetPenalty
              /\ calls[i].given[lo].price # Unparseable
              /\ calls[i].given[lo].price < calls[i].ctx.budget_range[1]
              /\ Gain(i, lo) = 0
              /\ calls[i].given[u].price = Unparseable
              /\ Gain(i, u) = 0

\* C15: truncation comes after ranking: a search with limit L returns the
\* first L entries of the personalized, sorted ordering of all the candidates
\* the vector store gave (up to 2 x L): at most L results, best scores first,
\* and no candidate left out scores higher than one returned; in the scenario
\* of C12 with limit 1 the result is [42].
Answered(i) ==
    /\ Called(i, "search")
    /\ calls[i].embedder = "vector" /\ calls[i].findOk
Ranked(i) ==
    { PersonalizeOne(c, calls[i].ctx) : c \in Range(ConvertResults(calls[i].raws)) }
C15_TruncateAfterRanking ==
    \A i \in CallIds :
        (Answered(i) /\ calls[i].limit >= 1) =>
            LET out == calls[i].out
            IN /\ calls[i].asked = <<2 * calls[i].limit>>
               /\ Len(out) = Min(calls[i].limit, Cardinality(Ranked(i)))
               /\ Range(out) \subseteq Ranked(i)
               /\ Cardinality(Range(out)) = Len(out)
               /\ \A n \in 1..(Len(out) - 1) :
                     out[n].similarity_score >= out[n + 1].similarity_score
               /\ \A c \in Ranked(i) \ Range(out) :
                     \A n \in 1..Len(out) : out[n].similarity_score >= c.similarity_score
               /\ (ScenarioSearch(i) /\ calls[i].limit = 1) => Ids(out) = <<42>>
\* the scenario was searched with limit 1: product 42, second in the vector
\* store's answer, is the one returned
C15_Witness ==
    \E i \in CallIds :
        /\ ScenarioSearch(i) /\ calls[i].limit = 1
        /\ calls[i].raws[1].product_id = 7
        /\ Ids(calls[i].out) = <<42>>

\* C16: when the embedding of the query fails (the embedder raises or gives
\* an empty vector), semantic_search returns an empty list, raises nothing
\* and does not query the vector store.
EmbeddingFailed(i) == Called(i, "search") /\ calls[i].embedder \in {"empty", "raises"}
C16_EmbeddingFailure ==
    \A i \in CallIds :
        EmbeddingFailed(i) =>
            /\ calls[i].out = <<>>
            /\ calls[i].asked = <<>>
            /\ ~calls[i].raised
\* both failures have happened in searches the vector store had candidates for
C16_Witness ==
    \E i, j \in CallIds :
        /\ EmbeddingFailed(i) /\ calls[i].embedder = "raises"
        /\ EmbeddingFailed(j) /\ calls[j].embedder = "empty"
        /\ ConvertResults(calls[i].raws) # <<>> /\ calls[i].limit >= 1
        /\ ConvertResults(calls[j].raws) # <<>> /\ calls[j].limit >= 1
        /\ calls[i].out = <<>> /\ calls[j].out = <<>>

\* C17: a non-positive limit is corrected to 1: a search with limit <= 0 asks
\* the vector store for a positive number of candidates and, when there are
\* candidates, returns one result, as a search with limit 1 does.
C17_LimitCorrected ==
    \A i \in CallIds :
        (Answered(i) /\ calls[i].limit <= 0) =>
            /\ calls[i].asked # <<>>
            /\ calls[i].asked[1] > 0
            /\ ConvertResults(calls[i].raws) # <<>> => Len(calls[i].out) = 1

\* C18: the fallback response is deterministic: two fallback responses made
\* for the same query, the same results and the same context have the same
\* text and the same suggestions.
C18_FallbackDeterministic ==
    \A i, j \in CallIds :
        ( /\ Called(i, "fallback") /\ Called(j, "fallback")
          /\ calls[i].query = calls[j].query
          /\ calls[i].products = calls[j].products
          /\ calls[i].ctx = calls[j].ctx )
        => /\ calls[i].out.response = calls[j].out.response
           /\ calls[i].out.suggestions = calls[j].out.suggestions

(* ------------------ claims about a request under failures -------------- *)
\* C19: no failure of a collaborator aborts a request: whichever of the
\* embedder, the vector store, the response generator, the session store
\* (load or save) and the interaction log fail, get_recommendations raises
\* nothing and returns a response: its products (none when the search
\* failed), a response text (the fallback text when the generator failed)
\* and the session id.
FallbackText(text) == text.kind \in {"template", "none_found"}
SaveDone(i) == Called(i, "save") /\ calls[i].replaceOk
RecordOf(c, sid) == c[FirstMatch(c, sid)]
SameContext(a, b) == [a EXCEPT !.updated_at = 0] = [b EXCEPT !.updated_at = 0]
\* two successful saves of one context
Repeated(i, j) ==
    /\ i < j
    /\ SaveDone(i) /\ SaveDone(j)
    /\ SameContext(calls[i].ctx, calls[j].ctx)
OnePerSession == \A i \in 1..Len(coll) : Cardinality(Matching(coll, coll[i].session_id)) = 1

\* C20 as stated: the save is an idempotent upsert keyed by session id: the
\* store holds at most one record per session id, and a second save of the
\* same context leaves the record of the first save but for updated_at;
\* created_at is not changed.
C20_SameRecord ==
    /\ OnePerSession
    /\ \A i, j \in CallIds :
          Repeated(i, j) =>
              LET a == RecordOf(calls[i].out, calls[i].ctx.session_id)
                  b == RecordOf(calls[j].out, calls[j].ctx.session_id)
              IN /\ b.created_at = a.created_at
                 /\ [b EXCEPT !.updated_at = a.updated_at] = a
\* C20 amended: the store holds at most one record per session id; a save
\* writes the fields of the context, created_at as it is and updated_at
\* refreshed; a second save of the same context leaves the record of the
\* first save but for updated_at and for the preference embedding, which each
\* save writes only if the embedder answers; the other records are untouched.
C20_IdempotentUpsert ==
    /\ OnePerSession
    /\ \A i \in CallIds :
          SaveDone(i) =>
              LET sid == calls[i].ctx.session_id
                  doc == RecordOf(calls[i].out, sid)
              IN /\ AsStore(calls[i].out) = calls[i].staged
                 /\ doc.created_at = calls[i].ctx.created_at
                 /\ doc.updated_at = calls[i].at
                 /\ doc.conversation_history = calls[i].ctx.conversation_history
                 /\ doc.viewed_products = calls[i].ctx.viewed_products
                 /\ doc.interested_categories = calls[i].ctx.interested_categories
                 /\ doc.budget_range = calls[i].ctx.budget_range
                 /\ \A s \in DOMAIN AsStore(calls[i].given) \ {sid} :
                       RecordOf(calls[i].out, s) = RecordOf(calls[i].given, s)
    /\ \A i, j \in CallIds :
          Repeated(i, j) =>
              LET a == RecordOf(calls[i].out, calls[i].ctx.session_id)
                  b == RecordOf(calls[j].out, calls[j].ctx.session_id)
              IN /\ Len(calls[j].out) = Len(calls[i].out)
                 /\ b.created_at = a.created_at
                 /\ b.updated_at = calls[j].at /\ b.updated_at > a.updated_at
                 /\ [b EXCEPT !.updated_at = a.updated_at, !.has_vector = a.has_vector] = a
                 /\ calls[i].embedOk = calls[j].embedOk => b.has_vector = a.has_vector
\* a context was saved twice over a stored record of its session, the
\* embedder failing in the second save only
C20_Witness ==
    \E i, j \in CallIds :
        /\ Repeated(i, j)
        /\ Matching(calls[i].given, calls[i].ctx.session_id) # {}
        /\ Len(coll) = Len(calls[i].given)
        /\ RecordOf(calls[i].out, calls[i].ctx.session_id).has_vector
        /\ ~RecordOf(coll, calls[j].ctx.session_id).has_vector
        /\ RecordOf(coll, calls[j].ctx.session_id).updated_at = calls[j].at

(* ------------------------- claims about the fusion --------------------- *)
\* C21: a stored history is never discarded: the history a request persists
\* is the history persisted before it followed by the new user/assistant
\* pair, cut to its last 20 entries, also when the load of the request
\* failed (the request runs alone on its session).
C21_HistoryKept ==
    [][ \A r \in RequestIds :
          (Returns(r) /\ reqs'[r].saved)
          => PersistedHistory(store', reqs[r].session_id)
               = KeepTail(PersistedHistory(store, reqs[r].session_id) \o FreshPair(r),
                          HistoryCap) ]_vars

\* C22: after a get_recommendations whose context was saved, the last two
\* entries of the persisted history are the user message with the request's
\* query and the assistant message with the response text returned, in this
\* order; last_search_query is the query; the entries before them are the
\* most recent entries of the history the request worked on, in their order.
C22_PairLast ==
    [][ \A r \in RequestIds :
          (Returns(r) /\ reqs'[r].saved)
          => LET doc == store'[reqs[r].session_id]
                 hist == doc.conversation_history
                 prior == reqs[r].user_context.conversation_history
                 n == Len(hist)
             IN /\ n = Min(Len(prior) + 2, HistoryCap)
                /\ hist[n - 1] = Message("user", QueryText(reqs[r].query), now)
                /\ hist[n] = Message("assistant", reqs'[r].ret.conversation_response, now)
                /\ doc.last_search_query = QueryText(reqs[r].query)
                /\ \A i \in 1..(n - 2) : hist[i] = prior[Len(prior) - (n - 2) + i] ]_vars
\* a request has been fused into a history that was full: its pair is last,
\* the two oldest entries are gone and the others have moved up
C22_Witness ==
    \E r \in RequestIds :
        LET sid == reqs[r].session_id
        IN /\ Saved(r) /\ reqs[r].loaded = "found"
           /\ sid \in DOMAIN store
           /\ Len(Persisted(sid).conversation_history) = HistoryCap
           /\ Persisted(sid).conversation_history[HistoryCap - 1]
                = Message("user", QueryText(reqs[r].query), reqs[r].finished)
           /\ Persisted(sid).conversation_history[HistoryCap]
                = Message("assistant", reqs[r].ret.conversation_response, reqs[r].finished)
           /\ Persisted(sid).conversation_history[1] = SeedHistory[1 + 2]
           /\ Persisted(sid).last_search_query = QueryText(reqs[r].query)

\* C23: the categories of every candidate retrieved from the vector store
\* for a request are among the interested categories persisted by its
\* fusion, also those of candidates cut off by the truncation to limit
\* (as long as the list stays within its capacity).
C23_AllCandidates ==
    [][ \A r \in RequestIds :
          (Returns(r) /\ reqs'[r].saved)
          => LET cats == store'[reqs[r].session_id].interested_categories
             IN Len(cats) < CategoryCap
                => CategoriesOf(reqs[r].retrieved) \subseteq Range(cats) ]_vars

\* C24: no persisted interested_categories holds a duplicate; the list a
\* fusion persists is the list it loaded followed by the categories of the
\* results that were not in it, cut from the front to 10: retained entries
\* keep their order, and a category of this fusion is dropped only when
\* every category of the earlier ones has been.
NoDuplicate(seq) == \A i, j \in 1..Len(seq) : seq[i] = seq[j] => i = j
C24_Categories ==
    /\ [] (\A s \in DOMAIN store : NoDuplicate(Persisted(s).interested_categories))
    /\ [][ \A r \in RequestIds :
             (Returns(r) /\ reqs'[r].saved)
             => LET prior == reqs[r].user_context.interested_categories
                    after == store'[reqs[r].session_id].interested_categories
                    fresh == CategoriesOf(reqs[r].search_results) \ Range(prior)
                    total == Len(prior) + Cardinality(fresh)
                    drop == total - Len(after)
                IN /\ Len(after) = Min(total, CategoryCap)
                   /\ NoDuplicate(after)
                   /\ \A i \in 1..Len(after) :
                        IF i + drop <= Len(prior) THEN after[i] = prior[i + drop]
                        ELSE after[i] \in fresh ]_vars
\* a fusion on a session holding 9 categories has appended two new ones: the
\* earliest category is evicted, the others keep their order
C24_Witness ==
    \E r \in RequestIds :
        LET cats == Persisted(reqs[r].session_id).interested_categories
        IN /\ Saved(r) /\ reqs[r].loaded = "found"
           /\ reqs[r].session_id \in DOMAIN store
           /\ Len(cats) = CategoryCap
           /\ \A i \in 1..(Len(SeedCategories) - 1) : cats[i] = SeedCategories[i + 1]
           /\ cats[CategoryCap - 1] \in CategoriesOf(reqs[r].search_results)
           /\ cats[CategoryCap] \in CategoriesOf(reqs[r].search_results)

(* --------------------------- claims about views ------------------------ *)
\* the view recorded by the step, and the step of a view
ViewStep == views' # views
NewView == CHOOSE v \in views' : v \notin views
\* C25: no persisted viewed_products holds a duplicate; a view of an
\* identifier already in the list leaves the stored record as it is (no
\* save), and a view of a new identifier that is saved puts it at the end of
\* the list, the oldest entries leaving first beyond 50.
C25_ViewedProducts ==
    /\ [] (\A s \in DOMAIN store : NoDuplicate(Persisted(s).viewed_products))
    /\ [][ ViewStep
           => LET v == NewView
                  sid == v.session_id
                  pid == v.product_id
              IN (v.loaded = "found")
                 => IF pid \in Range(store[sid].viewed_products)
                    THEN store' = store
                    ELSE IF v.recorded
                    THEN /\ store'[sid].viewed_products
                              = KeepTail(Append(store[sid].viewed_products, pid), ViewedCap)
                         /\ \A s \in DOMAIN store \ {sid} : store'[s] = store[s]
                    ELSE store' = store ]_vars
\* a view of an identifier already there has left the list of 50 as it was
ViewedAgain ==
    \E v \in views :
        /\ v.loaded = "found" /\ ~v.recorded /\ v.product_id = 42
        /\ v.session_id \in DOMAIN store
        /\ Persisted(v.session_id).viewed_products = SeedViewed
\* a new identifier was recorded on the session holding 50 viewed products:
\* it is last and the oldest one is gone
C25_Witness ==
    \E v \in views :
        /\ v.loaded = "found" /\ v.recorded /\ v.product_id = 51
        /\ v.session_id \in DOMAIN store
        /\ LET viewed == Persisted(v.session_id).viewed_products
           IN /\ Len(viewed) = ViewedCap
              /\ viewed[ViewedCap] = 51
              /\ viewed[1] = SeedViewed[1 + 1]

\* C26: the viewed_products persisted by a get_recommendations is the list
\* the request loaded, which for a request running alone is the list stored
\* before it, whatever products it returns.
C26_ViewedUntouched ==
    [][ \A r \in RequestIds :
          (Returns(r) /\ reqs'[r].saved)
          => LET sid == reqs[r].session_id
             IN /\ store'[sid].viewed_products = reqs[r].user_context.viewed_products
                /\ reqs[r].loaded = "found"
                     => store'[sid].viewed_products = store[sid].viewed_products
                /\ reqs[r].loaded = "absent" => store'[sid].viewed_products = <<>> ]_vars
\* a request on the session with 50 viewed products has returned products
\* and saved: the list is as it was
C26_Witness ==
    \E r \in RequestIds :
        /\ Saved(r) /\ reqs[r].loaded = "found"
        /\ reqs[r].ret.products # <<>>
        /\ reqs[r].session_id \in DOMAIN store
        /\ Persisted(reqs[r].session_id).viewed_products = SeedViewed
        /\ HasPair(Persisted(reqs[r].session_id).conversation_history, r)

(* ------------------------ claims about the ranking --------------------- *)
\* the candidates of search i with their adjusted scores, in retrieval order
Adjusted(i) == PersonalizeResults(ConvertResults(calls[i].raws), calls[i].ctx)
Position(seq, x) == CHOOSE n \in 1..Len(seq) : seq[n] = x
\* x is ranked before y: a higher score, or the same score and retrieved first
Before(seq, x, y) ==
    \/ x.similarity_score > y.similarity_score
    \/ /\ x.similarity_score = y.similarity_score
       /\ Position(seq, x) < Position(seq, y)
\* C27: what semantic_search returns is the stable descending sort of the
\* adjusted candidates (cut to limit): no result is added or repeated, none
\* is dropped by the ranking, scores are non-increasing, and results of equal
\* adjusted score keep their retrieval order.
C27_StableSort ==
    \A i \in CallIds :
        (Answered(i) /\ calls[i].limit >= 1) =>
            LET out == calls[i].out
                adjusted == Adjusted(i)
            IN /\ Range(out) \subseteq Range(adjusted)
               /\ NoDuplicate(out)
               /\ Len(out) = Min(Len(adjusted), calls[i].limit)
               /\ Len(adjusted) <= calls[i].limit => Range(out) = Range(adjusted)
               /\ \A n \in 1..(Len(out) - 1) :
                     /\ out[n].similarity_score >= out[n + 1].similarity_score
                     /\ Before(adjusted, out[n], out[n + 1])
               /\ \A c \in Range(adjusted) \ Range(out) :
                     \A n \in 1..Len(out) : Before(adjusted, out[n], c)
\* two candidates retrieved with different scores have the same adjusted
\* score and are returned in their retrieval order
C27_Witness ==
    \E i \in CallIds :
        /\ Answered(i) /\ Len(calls[i].out) = 1 + 1
        /\ Len(calls[i].raws) = 1 + 1
        /\ calls[i].raws[1].sim # calls[i].raws[1 + 1].sim
        /\ calls[i].out[1].similarity_score = calls[i].out[1 + 1].similarity_score
        /\ Ids(calls[i].out) = Ids(ConvertResults(calls[i].raws))

\* C28: a record of the vector store's answer that lacks a mandatory field
\* is left out, and the other records of the answer are converted in their
\* order and ranked as if the malformed record had not been retrieved; the
\* search is not emptied by it.
WellFormed(raw) == raw.has_fields
Malformed(i) == { n \in 1..Len(calls[i].raws) : ~WellFormed(calls[i].raws[n]) }
C28_MalformedDropped ==
    \A i \in CallIds :
        (Answered(i) /\ calls[i].limit >= 1 /\ Malformed(i) # {}) =>
            LET out == calls[i].out
                raws == calls[i].raws
                well == SelectSeq(raws, WellFormed)
            IN /\ \A n \in Malformed(i) : raws[n].product_id \notin Range(Ids(out))
               /\ Ids(Adjusted(i)) = [n \in 1..Len(well) |-> well[n].product_id]
               /\ out = SemanticSearch(calls[i].limit, calls[i].ctx, TRUE, TRUE, well)
               /\ Len(out) = Min(Len(well), calls[i].limit)
\* a search whose answer had a malformed record between well-formed ones has
\* returned as many results as the limit asks for
C28_Witness ==
    \E i \in CallIds :
        /\ Answered(i) /\ calls[i].limit = 1 + 1
        /\ 1 + 1 \in Malformed(i)
        /\ Len(calls[i].raws) > 1 + 1
        /\ Len(calls[i].out) = calls[i].limit

(* ------------------------ claims about the sessions -------------------- *)
\* the records of the sessions other than sid are in the store as they were
OthersUntouched(sid) ==
    \A s \in DOMAIN store \ {sid} : s \in DOMAIN store' /\ store'[s] = store[s]
\* C29: a step of a get_recommendations for a session, and a
\* get_product_recommendations for a session, leave the stored record of
\* every other session as it was, however the operations are interleaved.
C29_SessionsIsolated ==
    [][ /\ \A r \in RequestIds :
             reqs'[r] # reqs[r] => OthersUntouched(reqs'[r].session_id)
        /\ ViewStep => OthersUntouched(NewView.session_id) ]_vars
\* two requests of different sessions have overlapped, the one that started
\* first saving last: each record holds the pair of its own request only
C29_Witness ==
    \E r1, r2 \in RequestIds :
        /\ Saved(r1) /\ Saved(r2)
        /\ reqs[r1].session_id # reqs[r2].session_id
        /\ reqs[r1].started < reqs[r2].started
        /\ reqs[r2].finished < reqs[r1].finished
        /\ {reqs[r1].session_id, reqs[r2].session_id} \subseteq DOMAIN store
        /\ HasPair(Persisted(reqs[r1].session_id).conversation_history, r1)
        /\ HasPair(Persisted(reqs[r2].session_id).conversation_history, r2)
        /\ ~HasPair(Persisted(reqs[r1].session_id).conversation_history, r2)
        /\ ~HasPair(Persisted(reqs[r2].session_id).conversation_history, r1)

\* the product_view entry of view v in the interaction log
ViewEntry(v) ==
    LogEntry(v.session_id, "product_view",
             [query |-> "", results_count |-> 0, top_similarity |-> 0,
              product_id |-> v.product_id], v.at)
\* C30: a product view for a session without a stored context, or whose
\* load fails, writes nothing to the session store and appends its
\* product_view entry to the interaction log; without a session id it does
\* neither; a context created later for the session does not hold the view
\* (the product is there only if a later view of it was recorded).
C30_ViewCreatesNothing ==
    /\ [][ ViewStep
           => LET v == NewView
              IN /\ DOMAIN store' = DOMAIN store
                 /\ v.session_id = NoSession => (store' = store /\ log' = log)
                 /\ (v.session_id # NoSession /\ v.loaded # "found")
                      => /\ store' = store
                         /\ log' = IF v.logged THEN Append(log, ViewEntry(v)) ELSE log ]_vars
    /\ [] (\A v \in views :
             (v.loaded = "absent" /\ v.session_id \in DOMAIN store)
             => \/ v.product_id \notin Range(Persisted(v.session_id).viewed_products)
                \/ \E w \in views : /\ w.session_id = v.session_id
                                     /\ w.product_id = v.product_id
                                     /\ w.at > v.at /\ w.recorded)
\* a view for a session nothing was stored for is in the log, and the context
\* a later request created for the session has no viewed product
C30_Witness ==
    \E v \in views : \E r \in RequestIds :
        /\ v.loaded = "absent" /\ v.logged
        /\ \E n \in 1..Len(log) : log[n] = ViewEntry(v)
        /\ Saved(r) /\ reqs[r].session_id = v.session_id
        /\ reqs[r].started > v.at
        /\ v.session_id \in DOMAIN store
        /\ Persisted(v.session_id).viewed_products = <<>>
====
